---- MODULE Spec2Model ----
(***************************************************************************)
(* A model of the comparator catalog builder: comparator.find (walk,       *)
(* directories, files), comparator.db (the three tables and                *)
(* Directory.fullpath) and comparator.initialize (main).                   *)
(*                                                                         *)
(* A path string is a sequence of tokens: the separator "/" and names,     *)
(* each name one token.  The operating system resolves a path string to a  *)
(* sequence of components (Components); the program only ever builds path  *)
(* strings with os.path.join (Join2, JoinAll).                             *)
(*                                                                         *)
(* Every action is one step of main between two commits, so every state    *)
(* of a run is a commit boundary; Interrupt kills the process there.       *)
(***************************************************************************)
EXTENDS Integers, Sequences, FiniteSets, TLC

\* Bounds of the model.
MaxRuns == 2
MaxRoots == 2
MaxDepth == 1

VARIABLES
    disk,          \* the real filesystem: a set of entries keyed by component path
    roots,         \* options.filesystem
    filesystem,    \* table 'filesystem'
    directory,     \* table 'directory'
    file,          \* table 'file'
    pc,            \* where main is: idle, addfs, dirs, walk, files, ingest, close, done, crashed, killed
    run,           \* the current run: its number, its options, how the previous one ended
    last_id,       \* main's last_id
    fsq,           \* the FileSystem rows the current for-loop of main still has to visit
    parents,       \* directories(): the path -> id mapping
    directory_id,  \* directories(): the running id
    wstack,        \* walk(): the calls of walk still to be made, innermost first
    yielded,       \* the triples the walker has yielded in the current or last directories() call
    called,        \* the current or last directories() call of this run: fs (0 if none), start, returned
    dq,            \* the Directory rows the file stage still passes to files()
    ingested,      \* the ids of the Directory rows files() was called on in this run
    err,           \* the exception that ended the run, "" if none
    prev           \* the tables as the previous run left them, when it was a complete full build

vars == <<disk, roots, filesystem, directory, file, pc, run, last_id, fsq, parents,
          directory_id, wstack, yielded, called, dq, ingested, err, prev>>

--------------------------------------------------------------------------
(* Path strings and os.path.join.                                          *)

SEP == "/"

Last(s) == s[Len(s)]

Front(s) == SubSeq(s, 1, Len(s) - 1)

\* posixpath.join for two arguments.
Join2(path, b) ==
    IF b # <<>> /\ Head(b) = SEP THEN b
    ELSE IF path = <<>> \/ Last(path) = SEP THEN path \o b
    ELSE path \o <<SEP>> \o b

\* posixpath.join(a, *p): the fold of Join2 from the left.
RECURSIVE JoinAll(_, _)
JoinAll(a, p) == IF p = <<>> THEN a ELSE JoinAll(Join2(a, Head(p)), Tail(p))

\* How the operating system reads a path string: its non-empty components.
ComponentsOf[s \in Seq(STRING)] ==
    IF s = <<>> THEN <<>>
    ELSE IF Head(s) = SEP THEN ComponentsOf[Tail(s)]
    ELSE <<Head(s)>> \o ComponentsOf[Tail(s)]

Components(s) == ComponentsOf[s]

--------------------------------------------------------------------------
(* The filesystem.                                                         *)

NoEntry == [path |-> <<>>, kind |-> "none", st |-> "-", size |-> 0, mtime10 |-> 0, target |-> <<>>]

DirEnt(c, st) == [path |-> c, kind |-> "dir", st |-> st, size |-> 0, mtime10 |-> 0, target |-> <<>>]

\* mtime10 is st_mtime in tenths of a second.
FileEnt(c, size, m10) == [path |-> c, kind |-> "file", st |-> "-", size |-> size, mtime10 |-> m10, target |-> <<>>]

LinkEnt(c, target) == [path |-> c, kind |-> "link", st |-> "-", size |-> Len(target), mtime10 |-> 0, target |-> target]

\* The entry a component path names, not following a final symlink (lstat).
LookupC(d, c) ==
    LET at[x \in Seq(STRING)] ==
            IF \E e \in d : e.path = x THEN CHOOSE e \in d : e.path = x ELSE NoEntry
    IN  at[c]

\* Path resolution: a symlink that is not the last component is followed.
RealPath(d, cs) ==
    LET rp[x \in [done : Seq(STRING), rest : Seq(STRING), fuel : Nat]] ==
            IF x.rest = <<>> THEN x.done
            ELSE IF /\ Tail(x.rest) # <<>>
                    /\ x.fuel > 0
                    /\ LookupC(d, Append(x.done, Head(x.rest))).kind = "link"
                 THEN rp[[done |-> <<>>,
                          rest |-> Components(LookupC(d, Append(x.done, Head(x.rest))).target)
                                   \o Tail(x.rest),
                          fuel |-> x.fuel - 1]]
                 ELSE rp[[done |-> Append(x.done, Head(x.rest)), rest |-> Tail(x.rest),
                          fuel |-> x.fuel]]
        at[c \in Seq(STRING)] ==
            IF \E e \in d : /\ e.kind = "link"
                             /\ Len(e.path) < Len(c)
                             /\ SubSeq(c, 1, Len(e.path)) = e.path
            THEN rp[[done |-> <<>>, rest |-> c, fuel |-> Cardinality(d)]]
            ELSE c
    IN  at[cs]

Lookup(d, p) == LookupC(d, RealPath(d, Components(p)))

\* The entry a path names, following symlinks (stat).
RECURSIVE Follow(_, _, _)
Follow(d, e, fuel) ==
    IF e.kind = "link" /\ fuel > 0 THEN Follow(d, Lookup(d, e.target), fuel - 1) ELSE e

LookupFollow(d, p) == Follow(d, Lookup(d, p), Cardinality(d))

\* An os.path.exists that is true of every path.
PathExistsAlways(d, p) == TRUE

\* os.path.exists
path_exists(d, p) == LookupFollow(d, p).kind # "none"

\* os.path.islink
path_islink(d, p) == Lookup(d, p).kind = "link"

\* os.readlink: the raw target.
readlink(d, p) == Lookup(d, p).target

\* The order in which os.scandir returns the names of one directory.
ListingOrder == <<"a", "b", "f", "l">>

RECURSIVE ListNames(_, _, _)
ListNames(d, c, names) ==
    IF names = <<>> THEN <<>>
    ELSE (IF LookupC(d, c \o <<Head(names)>>).kind # "none"
          THEN <<LookupC(d, c \o <<Head(names)>>)>> ELSE <<>>)
         \o ListNames(d, c, Tail(names))

\* A directory that can be read: "ok", or "nosearch" (read permission without
\* search permission: its names can be listed, its entries cannot be reached).
Readable(e) == e.kind = "dir" /\ e.st \in {"ok", "nosearch"}

\* An entry can be reached (lstat, readlink, scandir) when no directory above it
\* lacks search permission.
RECURSIVE Searchable(_, _)
Searchable(d, c) ==
    IF c = <<>> THEN TRUE
    ELSE LookupC(d, Front(c)).st # "nosearch" /\ Searchable(d, Front(c))

\* A listing that ends at the OSError of next() and keeps what it read.
ScanDirPartial(d, p) ==
    LET e == LookupFollow(d, p)
    IN  IF e.kind = "dir" /\ e.st \in {"ok", "nosearch", "iterfail"}
        THEN [ok |-> TRUE, entries |-> ListNames(d, e.path, ListingOrder)]
        ELSE [ok |-> FALSE, entries |-> <<>>]

\* os.scandir(p), iterated to its end: ok and the DirEntry objects, or the
\* OSError of opening it (openfail, not a directory, missing) or of next() (iterfail).
ScanDir(d, p) ==
    LET e == LookupFollow(d, p)
    IN  IF Readable(e) /\ Searchable(d, e.path)
        THEN [ok |-> TRUE, entries |-> ListNames(d, e.path, ListingOrder)]
        ELSE [ok |-> FALSE, entries |-> <<>>]

\* DirEntry.name
EntryName(e) == Last(e.path)

\* DirEntry.is_dir(follow_symlinks=...)
is_dir(d, e, follow_symlinks) ==
    IF follow_symlinks THEN Follow(d, e, Cardinality(d)).kind = "dir" ELSE e.kind = "dir"

\* DirEntry.is_symlink()
is_symlink(e) == e.kind = "link"

\* DirEntry.stat(follow_symlinks=False) and os.readlink succeed.
stat_ok(d, e) == Searchable(d, e.path)

--------------------------------------------------------------------------
(* The command line and the trees of the model.                            *)

RootTokens == <<"p", "q", "s", "t">>

\* options.filesystem: the second root is given with a trailing separator.
RootArg(i) == IF i = 2 THEN <<SEP, RootTokens[i], SEP>> ELSE <<SEP, RootTokens[i]>>

\* options.release
Release == <<"r">>

RootComp(i) == <<RootTokens[i], "r">>

RootString(i) == <<SEP, RootTokens[i], SEP, "r">>

\* What a directory c holds beside its subdirectory "a".
Side(c, v, i) ==
    CASE v = 1 -> {}
      [] v = 2 -> {FileEnt(c \o <<"f">>, 10, 1005), LinkEnt(c \o <<"l">>, <<SEP, "x">>)}
      [] v = 3 -> {DirEnt(c \o <<"b">>, "openfail"), FileEnt(c \o <<"b", "f">>, 5, 50),
                   FileEnt(c \o <<"f">>, 0, 19)}
      [] OTHER -> {DirEnt(c \o <<"b">>, "ok"), LinkEnt(c \o <<"l">>, RootString(i))}

\* The contents of directory c, nested at most depth levels further down.
RECURSIVE Tree(_, _, _)
Tree(c, depth, i) ==
    LET sub == {{}, {DirEnt(c \o <<"a">>, "iterfail"), FileEnt(c \o <<"a", "f">>, 3, 30),
                     DirEnt(c \o <<"a", "b">>, "ok")},
                    {DirEnt(c \o <<"a">>, "nosearch"), FileEnt(c \o <<"a", "f">>, 3, 30)}}
               \cup (IF depth > 0
                     THEN {{DirEnt(c \o <<"a">>, "ok")} \cup t : t \in Tree(c \o <<"a">>, depth - 1, i)}
                     ELSE {})
    IN  {Side(c, v, i) \cup s : v \in 1..4, s \in sub}

\* The trees of a single root: absent, unlistable, or any tree of Tree.
RichTrees(i) ==
    {{}, {DirEnt(RootComp(i), "openfail"), FileEnt(RootComp(i) \o <<"f">>, 1, 10)},
         {DirEnt(RootComp(i), "iterfail"), FileEnt(RootComp(i) \o <<"f">>, 1, 10)}}
    \cup {{DirEnt(RootComp(i), "ok")} \cup t : t \in Tree(RootComp(i), MaxDepth, i)}

\* The trees of each root when several roots are configured.
SmallTrees(i) ==
    {{}, {DirEnt(RootComp(i), "ok")},
         {DirEnt(RootComp(i), "ok"), FileEnt(RootComp(i) \o <<"f">>, 10, 1005)},
         {DirEnt(RootComp(i), "ok"), DirEnt(RootComp(i) \o <<"a">>, "ok"),
          FileEnt(RootComp(i) \o <<"a", "f">>, 4, 41), LinkEnt(RootComp(i) \o <<"l">>, <<SEP, "x">>)}}

--------------------------------------------------------------------------
(* The tables (comparator.db).                                             *)

FileSystemRow(id, name) == [id |-> id, name |-> name]

\* nfiles has default=0; the name of a root row is the empty string.
DirectoryRow(id, fsid, parent, name) ==
    [id |-> id, filesystem_id |-> fsid, parent_id |-> parent, nfiles |-> 0, name |-> name]

FileRow(id, dirid, size, mtime, name, link, destination) ==
    [id |-> id, directory_id |-> dirid, size |-> size, mtime |-> mtime, name |-> name,
     link |-> link, destination |-> destination]

RECURSIVE SortById(_)
SortById(S) ==
    IF S = {} THEN <<>>
    ELSE LET m == CHOOSE r \in S : \A o \in S : r.id <= o.id
         IN  <<m>> \o SortById(S \ {m})

MaxId(S) == IF S = {} THEN 0 ELSE CHOOSE n \in {r.id : r \in S} : \A r \in S : r.id <= n

\* A commit of new rows violates the primary key when an id is already taken.
PrimaryKeyOk(table, new) ==
    /\ \A n \in new : ~ \E r \in table : r.id = n.id
    /\ \A n, m \in new : n.id = m.id => n = m

\* FileSystem.name is unique.
UniqueNameOk(table, new) ==
    /\ \A n \in new : ~ \E r \in table : r.name = n.name
    /\ \A n, m \in new : n.name = m.name => n = m

\* Query.one(): NoResultFound, the row, or MultipleResultsFound.
OneResult(rows) ==
    IF rows = {} THEN "NoResultFound"
    ELSE IF Cardinality(rows) = 1 THEN "one"
    ELSE "MultipleResultsFound"

DirectoriesOf(dirT, fsid) == {r \in dirT : r.filesystem_id = fsid}

\* Session.query(File).join(Directory).filter(Directory.filesystem_id == fs.id)
FilesOfFs(dirT, fileT, fsid) ==
    {f \in fileT : \E r \in dirT : r.id = f.directory_id /\ r.filesystem_id = fsid}

\* Directory.parent and Directory.filesystem
ParentRow(dirT, row) == CHOOSE r \in dirT : r.id = row.parent_id

FileSystemOf(fsT, row) == CHOOSE f \in fsT : f.id = row.filesystem_id

RECURSIVE FpNames(_, _, _)

\* A fullpath that appends the names of the ancestors instead of inserting them.
FpNamesAppend(dirT, parent, fp) ==
    IF parent.name # "" THEN FpNames(dirT, ParentRow(dirT, parent), fp \o <<(<<parent.name>>)>>)
    ELSE fp

\* The while loop of Directory.fullpath: the names of the ancestors, outermost first.
FpNames(dirT, parent, fp) ==
    IF parent.name # "" THEN FpNames(dirT, ParentRow(dirT, parent), <<(<<parent.name>>)>> \o fp)
    ELSE fp

\* Directory.fullpath
fullpath(fsT, dirT, row) ==
    IF row.name = "" THEN FileSystemOf(fsT, row).name
    ELSE JoinAll(FileSystemOf(fsT, row).name,
                 FpNames(dirT, ParentRow(dirT, row), <<(<<row.name>>)>>))

--------------------------------------------------------------------------
(* comparator.find                                                         *)

\* A walker that classifies with is_dir(), which follows symlinks.
WalkIsDirFollow(d, e) == is_dir(d, e, TRUE)

\* The classification of walk(): is_dir(follow_symlinks=False).
WalkIsDir(d, e) == is_dir(d, e, FALSE)

\* The test of walk() before it recurses: not os.path.islink(new_path).
WalkRecurses(d, new_path) == ~ path_islink(d, new_path)

\* A walk that, after the subdirectories, recurses into top itself.
WalkFramesAgain(top, dirs) ==
    [k \in 1..Len(dirs) |-> [path |-> Join2(top, <<EntryName(dirs[k])>>), chk |-> TRUE]]
    \o <<[path |-> top, chk |-> FALSE]>>

\* walk(), lines 68-75: the calls walk(new_path) still to be made for one triple.
WalkFrames(top, dirs) == [k \in 1..Len(dirs) |-> [path |-> Join2(top, <<EntryName(dirs[k])>>), chk |-> TRUE]]

\* The next triple of the generator walk(), whose pending calls are stack:
\* a call on a symlink is not made, a call whose listing fails yields nothing.
RECURSIVE WalkNext(_, _)
WalkNext(d, stack) ==
    IF stack = <<>> THEN [done |-> TRUE, top |-> <<>>, dirs |-> <<>>, nondirs |-> <<>>, rest |-> <<>>]
    ELSE LET h == Head(stack)
             s == ScanDir(d, h.path)
             dirs == SelectSeq(s.entries, LAMBDA e : WalkIsDir(d, e))
             nondirs == SelectSeq(s.entries, LAMBDA e : ~ WalkIsDir(d, e))
         IN  IF h.chk /\ ~ WalkRecurses(d, h.path) THEN WalkNext(d, Tail(stack))
             ELSE IF ~ s.ok THEN WalkNext(d, Tail(stack))
             ELSE [done |-> FALSE, top |-> h.path, dirs |-> dirs, nondirs |-> nondirs,
                   rest |-> WalkFrames(h.path, dirs) \o Tail(stack)]

\* A loop over the subdirectories that stops one short.
ChildRowsNoLast(fsid, parent_id, dirs, start) ==
    {DirectoryRow(start + k, fsid, parent_id, EntryName(dirs[k])) : k \in 1..(Len(dirs) - 1)}

\* A loop over the subdirectories that advances directory_id twice per row
\* after the first.
ChildRowsGap(fsid, parent_id, dirs, start) ==
    {DirectoryRow(start + 2 * k - 1, fsid, parent_id, EntryName(dirs[k])) : k \in 1..Len(dirs)}

\* directories(): the rows added for the subdirectories of one triple.
ChildRows(fsid, parent_id, dirs, start) ==
    {DirectoryRow(start + k, fsid, parent_id, EntryName(dirs[k])) : k \in 1..Len(dirs)}

\* A mapping keyed by the name of the subdirectory, not by its path.
ChildParentsNames(dirpath, dirs, start) ==
    [p \in {<<EntryName(dirs[k])>> : k \in 1..Len(dirs)} |->
        start + (CHOOSE k \in 1..Len(dirs) : <<EntryName(dirs[k])>> = p)]

\* directories(): the entries added to parents for one triple.
ChildParents(dirpath, dirs, start) ==
    [p \in {Join2(dirpath, <<EntryName(dirs[k])>>) : k \in 1..Len(dirs)} |->
        start + (CHOOSE k \in 1..Len(dirs) : Join2(dirpath, <<EntryName(dirs[k])>>) = p)]

\* A count of all the entries of the triple.
NfilesAllEntries(t) == Len(t.nondirs) + Len(t.dirs)

\* len(filenames)
NfilesOf(t) == Len(t.nondirs)

\* An update without its WHERE clause.
SetNfilesAll(dirT, id, n) == {[r EXCEPT !.nfiles = n] : r \in dirT}

\* p.nfiles = n
SetNfiles(dirT, id, n) == {IF r.id = id THEN [r EXCEPT !.nfiles = n] ELSE r : r \in dirT}

\* directories(), lines 100-107, on the triple t: the exception it raises, or
\* the tables and locals after its commit.
DirectoriesBody(fsid, t, st) ==
    LET hit == IF t.top \in DOMAIN st.parents
               THEN {r \in st.directory : r.id = st.parents[t.top]} ELSE {}
        new == ChildRows(fsid, st.parents[t.top], t.dirs, st.directory_id)
    IN  IF t.top \notin DOMAIN st.parents THEN [st EXCEPT !.err = "KeyError"]
        ELSE IF OneResult(hit) # "one" THEN [st EXCEPT !.err = OneResult(hit)]
        ELSE IF ~ PrimaryKeyOk(st.directory, new) THEN [st EXCEPT !.err = "IntegrityError"]
        ELSE [err |-> "",
              directory |-> SetNfiles(st.directory, st.parents[t.top], NfilesOf(t)) \cup new,
              parents |-> ChildParents(t.top, t.dirs, st.directory_id) @@ st.parents,
              directory_id |-> st.directory_id + Len(t.dirs),
              wstack |-> t.rest]

\* A seed whose root row has no parent.
DirectoriesSeedNoParent(fs, dirT, id) ==
    IF ~ PrimaryKeyOk(dirT, {DirectoryRow(id, fs.id, 0, "")})
    THEN [err |-> "IntegrityError", directory |-> dirT, parents |-> <<>>,
          directory_id |-> id, wstack |-> <<>>]
    ELSE [err |-> "", directory |-> dirT \cup {DirectoryRow(id, fs.id, 0, "")},
          parents |-> (fs.name :> id), directory_id |-> id,
          wstack |-> <<[path |-> fs.name, chk |-> FALSE]>>]

\* A seed that counts the root row twice: the first child gets startId + 2.
DirectoriesSeedSkip(fs, dirT, id) ==
    IF ~ PrimaryKeyOk(dirT, {DirectoryRow(id, fs.id, id, "")})
    THEN [err |-> "IntegrityError", directory |-> dirT, parents |-> <<>>,
          directory_id |-> id, wstack |-> <<>>]
    ELSE [err |-> "", directory |-> dirT \cup {DirectoryRow(id, fs.id, id, "")},
          parents |-> (fs.name :> id), directory_id |-> id + 1,
          wstack |-> <<[path |-> fs.name, chk |-> FALSE]>>]

\* directories(), lines 95-98: the exception of the commit of the root row, or
\* the tables and locals after it.
DirectoriesSeed(fs, dirT, id) ==
    IF ~ PrimaryKeyOk(dirT, {DirectoryRow(id, fs.id, id, "")})
    THEN [err |-> "IntegrityError", directory |-> dirT, parents |-> <<>>,
          directory_id |-> id, wstack |-> <<>>]
    ELSE [err |-> "", directory |-> dirT \cup {DirectoryRow(id, fs.id, id, "")},
          parents |-> (fs.name :> id), directory_id |-> id,
          wstack |-> <<[path |-> fs.name, chk |-> FALSE]>>]

\* What the walker hands to directories() for one triple, as the model records it.
TripleOf(t) ==
    [top |-> t.top,
     dirs |-> [k \in 1..Len(t.dirs) |-> EntryName(t.dirs[k])],
     nondirs |-> [k \in 1..Len(t.nondirs) |-> EntryName(t.nondirs[k])]]

\* A files() that classifies with is_dir(), which follows symlinks.
FilesTakesFollow(d, e) == ~ is_dir(d, e, TRUE)

\* files(): which entries become File rows.
FilesTakes(d, e) == ~ is_dir(d, e, FALSE)

\* A files() that records a symlink with the size lstat gives.
FileOfEntryStat(d, p, dirid, id, e) ==
    IF is_symlink(e)
    THEN FileRow(id, dirid, e.size, 0, EntryName(e), TRUE, readlink(d, Join2(p, <<EntryName(e)>>)))
    ELSE FileRow(id, dirid, e.size, e.mtime10 \div 10, EntryName(e), FALSE, <<>>)

\* files(): the File of one entry; int(st.st_mtime) truncates.
FileOfEntry(d, p, dirid, id, e) ==
    IF is_symlink(e)
    THEN FileRow(id, dirid, 0, 0, EntryName(e), TRUE, readlink(d, Join2(p, <<EntryName(e)>>)))
    ELSE FileRow(id, dirid, e.size, e.mtime10 \div 10, EntryName(e), FALSE, <<>>)

\* A files() that commits after its first entry and stops there.
FilesRowsFirst(d, fsT, dirT, fileT, row) ==
    LET p == fullpath(fsT, dirT, row)
        s == ScanDir(d, p)
        taken == SelectSeq(s.entries, LAMBDA e : FilesTakes(d, e))
    IN  [ok |-> s.ok /\ \A k \in 1..Len(taken) : stat_ok(d, taken[k]),
         rows |-> {FileOfEntry(d, p, row.id, MaxId(fileT) + k, taken[k]) : k \in 1..1}]

\* files(directory): the OSError of os.scandir, os.readlink or DirEntry.stat,
\* which leaves files() before its commit, or the rows it commits.
FilesRows(d, fsT, dirT, fileT, row) ==
    LET p == fullpath(fsT, dirT, row)
        s == ScanDir(d, p)
        taken == SelectSeq(s.entries, LAMBDA e : FilesTakes(d, e))
    IN  [ok |-> s.ok /\ \A k \in 1..Len(taken) : stat_ok(d, taken[k]),
         rows |-> {FileOfEntry(d, p, row.id, MaxId(fileT) + k, taken[k]) : k \in 1..Len(taken)}]

--------------------------------------------------------------------------
(* comparator.initialize: main.                                            *)

\* The three-way test of the directory stage on the Directory rows of fs.
DirStageBranch(rows) ==
    LET q == OneResult(rows)
    IN  IF q = "NoResultFound" THEN "scan"
        ELSE IF q = "MultipleResultsFound" THEN "max"
        ELSE "one"

\* A file stage that ingests whatever the table holds.
FileStageBranchAlways(rows) == "ingest"

\* A file stage that takes one File row for an unfinished scan.
FileStageBranchOne(rows) ==
    IF OneResult(rows) = "MultipleResultsFound" THEN "pass" ELSE "ingest"

\* The three-way test of the file stage on the File rows of fs.
FileStageBranch(rows) ==
    IF OneResult(rows) = "NoResultFound" THEN "ingest" ELSE "pass"

\* A query for all the directories of the filesystem.
IngestQueryAll(dirT, fsid) == SortById(DirectoriesOf(dirT, fsid))

\* main, line 112: the directories of the filesystem with nfiles > 0.
IngestQuery(dirT, fsid) == SortById({r \in DirectoriesOf(dirT, fsid) : r.nfiles > 0})

\* A start that leaves one id out.
StartIdGap(last) == last + 2

\* main, line 93: the id main passes to directories().
StartId(last) == last + 1

\* A file stage that runs whatever the flag.
FileStageRunsAlways(skip_files) == TRUE

\* main, line 106: if not options.skip_files
FileStageRuns(skip_files) == ~ skip_files

\* A test on the FileSystem table that goes on when it finds several rows.
AddBranchCaught(rows) == IF OneResult(rows) = "NoResultFound" THEN "add" ELSE "go"

\* The test on the FileSystem table: add the roots, go on, or fail.
AddBranch(rows) ==
    LET q == OneResult(rows)
    IN  IF q = "NoResultFound" THEN "add"
        ELSE IF q = "MultipleResultsFound" THEN "raise"
        ELSE "go"

\* The rows main adds for options.filesystem.
NewFileSystems(rs) ==
    {FileSystemRow(k, Join2(rs[k], Release)) : k \in 1..Len(rs)}

NoCall == [fs |-> 0, start |-> 0, returned |-> FALSE]

NoSnapshot == [directory |-> {}, file |-> {}]

InRun == {"addfs", "dirs", "walk", "files", "ingest", "close"}

Ended == {"idle", "done", "crashed", "killed"}

Init ==
    /\ \E n \in 1..MaxRoots :
          /\ roots = [i \in 1..n |-> RootArg(i)]
          /\ IF n = 1
             THEN disk \in RichTrees(1)
             ELSE \E t \in [1..n -> UNION {SmallTrees(i) : i \in 1..n}] :
                     /\ \A i \in 1..n : t[i] \in SmallTrees(i)
                     /\ disk = UNION {t[i] : i \in 1..n}
    /\ filesystem = {}
    /\ directory = {}
    /\ file = {}
    /\ pc = "idle"
    /\ run = [n |-> 0, skip_files |-> FALSE, fresh |-> TRUE, after |-> "none"]
    /\ last_id = 0
    /\ fsq = <<>>
    /\ parents = <<>>
    /\ directory_id = 0
    /\ wstack = <<>>
    /\ yielded = <<>>
    /\ called = NoCall
    /\ dq = <<>>
    /\ ingested = {}
    /\ err = ""
    /\ prev = NoSnapshot

Locals0 ==
    /\ last_id' = 0
    /\ fsq' = <<>>
    /\ parents' = <<>>
    /\ directory_id' = 0
    /\ wstack' = <<>>
    /\ yielded' = <<>>
    /\ called' = NoCall
    /\ dq' = <<>>
    /\ ingested' = {}

\* An exception leaves main: nothing uncommitted is kept.
Raise(e) ==
    /\ pc' = "crashed"
    /\ err' = e

\* main, lines 64-74: the options, the overwrite, the session.
MainBegin ==
    /\ pc \in Ended
    /\ run.n < MaxRuns
    /\ \E skip \in BOOLEAN, overwrite \in BOOLEAN :
          /\ filesystem' = IF overwrite THEN {} ELSE filesystem
          /\ directory' = IF overwrite THEN {} ELSE directory
          /\ file' = IF overwrite THEN {} ELSE file
          /\ run' = [n |-> run.n + 1, skip_files |-> skip,
                     fresh |-> filesystem' = {} /\ directory' = {} /\ file' = {},
                     after |-> IF overwrite \/ pc = "idle" THEN "none"
                               ELSE IF pc = "done" /\ run.skip_files THEN "partial"
                               ELSE pc]
          /\ prev' = IF ~ overwrite /\ pc = "done" /\ ~ run.skip_files
                     THEN [directory |-> directory, file |-> file]
                     ELSE NoSnapshot
    /\ pc' = "addfs"
    /\ err' = ""
    /\ Locals0

\* main is run with the command line of the run before it (of the first run: roots).
MainStart ==
    /\ MainBegin
    /\ UNCHANGED <<disk, roots>>

\* main, lines 78-88: add the filesystems unless the table holds exactly one
\* row; MultipleResultsFound is not caught.
AddFilesystems ==
    /\ pc = "addfs"
    /\ LET b == AddBranch(filesystem)
           new == NewFileSystems(roots)
       IN  IF b = "raise" THEN Raise("MultipleResultsFound") /\ UNCHANGED <<filesystem, fsq>>
           ELSE IF b = "add" /\ ~ UniqueNameOk(filesystem, new)
           THEN Raise("IntegrityError") /\ UNCHANGED <<filesystem, fsq>>
           ELSE /\ filesystem' = IF b = "add" THEN filesystem \cup new ELSE filesystem
                /\ fsq' = SortById(filesystem')
                /\ pc' = "dirs"
                /\ err' = ""
    /\ UNCHANGED <<disk, roots, directory, file, run, last_id, parents, directory_id,
                   wstack, yielded, called, dq, ingested, prev>>

\* main, line 89: a root that does not exist is passed over.
DirStageMissing ==
    /\ pc = "dirs"
    /\ fsq # <<>>
    /\ ~ path_exists(disk, Head(fsq).name)
    /\ fsq' = Tail(fsq)
    /\ UNCHANGED <<disk, roots, filesystem, directory, file, pc, run, last_id, parents,
                   directory_id, wstack, yielded, called, dq, ingested, err, prev>>

\* main, lines 92-93, and directories(), lines 95-98: the root row is committed.
DirStageScan ==
    /\ pc = "dirs"
    /\ fsq # <<>>
    /\ path_exists(disk, Head(fsq).name)
    /\ DirStageBranch(DirectoriesOf(directory, Head(fsq).id)) = "scan"
    /\ LET n == DirectoriesSeed(Head(fsq), directory, StartId(last_id))
       IN  IF n.err # ""
           THEN /\ Raise(n.err)
                /\ UNCHANGED <<directory, parents, directory_id, wstack, yielded, called>>
           ELSE /\ directory' = n.directory
                /\ parents' = n.parents
                /\ directory_id' = n.directory_id
                /\ wstack' = n.wstack
                /\ yielded' = <<>>
                /\ called' = [fs |-> Head(fsq).id, start |-> StartId(last_id), returned |-> FALSE]
                /\ pc' = "walk"
                /\ err' = ""
    /\ UNCHANGED <<disk, roots, filesystem, file, run, last_id, fsq, dq, ingested, prev>>

\* main, lines 94-95: several Directory rows, the filesystem counts as scanned.
DirStageMany ==
    /\ pc = "dirs"
    /\ fsq # <<>>
    /\ path_exists(disk, Head(fsq).name)
    /\ DirStageBranch(DirectoriesOf(directory, Head(fsq).id)) = "max"
    /\ last_id' = MaxId(directory)
    /\ fsq' = Tail(fsq)
    /\ UNCHANGED <<disk, roots, filesystem, directory, file, pc, run, parents,
                   directory_id, wstack, yielded, called, dq, ingested, err, prev>>

\* main, lines 96-102: exactly one Directory row.
DirStageOne ==
    /\ pc = "dirs"
    /\ fsq # <<>>
    /\ path_exists(disk, Head(fsq).name)
    /\ DirStageBranch(DirectoriesOf(directory, Head(fsq).id)) = "one"
    /\ last_id' = (CHOOSE q \in DirectoriesOf(directory, Head(fsq).id) : TRUE).id
    /\ fsq' = Tail(fsq)
    /\ UNCHANGED <<disk, roots, filesystem, directory, file, pc, run, parents,
                   directory_id, wstack, yielded, called, dq, ingested, err, prev>>

\* main, lines 106-107: the directory loop is over.
DirStageEnd ==
    /\ pc = "dirs"
    /\ fsq = <<>>
    /\ IF FileStageRuns(run.skip_files)
       THEN pc' = "files" /\ fsq' = SortById(filesystem)
       ELSE pc' = "close" /\ fsq' = <<>>
    /\ UNCHANGED <<disk, roots, filesystem, directory, file, run, last_id, parents,
                   directory_id, wstack, yielded, called, dq, ingested, err, prev>>

\* directories(), lines 99-107: one triple of the walker, one commit.
DirectoriesIter ==
    /\ pc = "walk"
    /\ \E t \in {WalkNext(disk, wstack)} :
          /\ ~ t.done
          /\ \E n \in {DirectoriesBody(called.fs, t,
                            [err |-> "", directory |-> directory, parents |-> parents,
                             directory_id |-> directory_id, wstack |-> wstack])} :
                IF n.err # ""
                THEN /\ Raise(n.err)
                     /\ UNCHANGED <<directory, parents, directory_id, wstack, yielded>>
                ELSE /\ directory' = n.directory
                     /\ parents' = n.parents
                     /\ directory_id' = n.directory_id
                     /\ wstack' = n.wstack
                     /\ yielded' = Append(yielded, TripleOf(t))
                     /\ UNCHANGED <<pc, err>>
    /\ UNCHANGED <<disk, roots, filesystem, file, run, last_id, fsq, called, dq, ingested, prev>>

\* directories(), line 108, and main, line 93: last_id = directories(...).
DirectoriesReturn ==
    /\ pc = "walk"
    /\ \E t \in {WalkNext(disk, wstack)} : t.done
    /\ last_id' = directory_id
    /\ wstack' = <<>>
    /\ fsq' = Tail(fsq)
    /\ called' = [called EXCEPT !.returned = TRUE]
    /\ pc' = "dirs"
    /\ UNCHANGED <<disk, roots, filesystem, directory, file, run, parents, directory_id,
                   yielded, dq, ingested, err, prev>>

\* main, line 108: a root that does not exist is passed over.
FileStageMissing ==
    /\ pc = "files"
    /\ fsq # <<>>
    /\ ~ path_exists(disk, Head(fsq).name)
    /\ fsq' = Tail(fsq)
    /\ UNCHANGED <<disk, roots, filesystem, directory, file, pc, run, last_id, parents,
                   directory_id, wstack, yielded, called, dq, ingested, err, prev>>

\* main, lines 111-112: no File row, the directories with nfiles > 0 are queried.
FileStageIngest ==
    /\ pc = "files"
    /\ fsq # <<>>
    /\ path_exists(disk, Head(fsq).name)
    /\ FileStageBranch(FilesOfFs(directory, file, Head(fsq).id)) = "ingest"
    /\ dq' = IngestQuery(directory, Head(fsq).id)
    /\ pc' = "ingest"
    /\ UNCHANGED <<disk, roots, filesystem, directory, file, run, last_id, fsq, parents,
                   directory_id, wstack, yielded, called, ingested, err, prev>>

\* main, lines 114-123: one File row or several, nothing is done.
FileStagePass ==
    /\ pc = "files"
    /\ fsq # <<>>
    /\ path_exists(disk, Head(fsq).name)
    /\ FileStageBranch(FilesOfFs(directory, file, Head(fsq).id)) = "pass"
    /\ fsq' = Tail(fsq)
    /\ UNCHANGED <<disk, roots, filesystem, directory, file, pc, run, last_id, parents,
                   directory_id, wstack, yielded, called, dq, ingested, err, prev>>

\* main, line 124: the file loop is over.
FileStageEnd ==
    /\ pc = "files"
    /\ fsq = <<>>
    /\ pc' = "close"
    /\ UNCHANGED <<disk, roots, filesystem, directory, file, run, last_id, fsq, parents,
                   directory_id, wstack, yielded, called, dq, ingested, err, prev>>

\* main, line 113: files(d), one commit, or the OSError of os.scandir.
FilesCall ==
    /\ pc = "ingest"
    /\ dq # <<>>
    /\ LET r == FilesRows(disk, filesystem, directory, file, Head(dq))
       IN  IF ~ r.ok
           THEN Raise("OSError") /\ UNCHANGED <<file, dq, ingested>>
           ELSE /\ file' = file \cup r.rows
                /\ dq' = Tail(dq)
                /\ ingested' = ingested \cup {Head(dq).id}
                /\ UNCHANGED <<pc, err>>
    /\ UNCHANGED <<disk, roots, filesystem, directory, run, last_id, fsq, parents,
                   directory_id, wstack, yielded, called, prev>>

\* main, line 112: the loop over the directories of one filesystem is over.
FilesLoopEnd ==
    /\ pc = "ingest"
    /\ dq = <<>>
    /\ fsq' = Tail(fsq)
    /\ pc' = "files"
    /\ UNCHANGED <<disk, roots, filesystem, directory, file, run, last_id, parents,
                   directory_id, wstack, yielded, called, dq, ingested, err, prev>>

\* main, lines 127-128: Session.close(), return 0.
Close ==
    /\ pc = "close"
    /\ pc' = "done"
    /\ UNCHANGED <<disk, roots, filesystem, directory, file, run, last_id, fsq, parents,
                   directory_id, wstack, yielded, called, dq, ingested, err, prev>>

\* The process is killed between two commits: the tables stay, the rest is lost.
Interrupt ==
    /\ pc \in InRun
    /\ pc' = "killed"
    /\ err' = ""
    /\ Locals0
    /\ UNCHANGED <<disk, roots, filesystem, directory, file, run, prev>>

Next ==
    \/ MainStart
    \/ AddFilesystems
    \/ DirStageMissing
    \/ DirStageScan
    \/ DirStageMany
    \/ DirStageOne
    \/ DirStageEnd
    \/ DirectoriesIter
    \/ DirectoriesReturn
    \/ FileStageMissing
    \/ FileStageIngest
    \/ FileStagePass
    \/ FileStageEnd
    \/ FilesCall
    \/ FilesLoopEnd
    \/ Close
    \/ Interrupt

Spec == Init /\ [][Next]_vars

\* main keeps running: the loop of directories() over
\* the walker takes its next step as long as the process is not killed.
SpecFair ==
    /\ Init
    /\ [][Next]_vars
    /\ WF_vars(DirectoriesIter \/ DirectoriesReturn)

--------------------------------------------------------------------------
(* main in an environment that changes: between two runs a root appears or *)
(* disappears and the command line names other roots, during the file     *)
(* stage a directory loses its read permission.                            *)

\* The values of options.filesystem.
RootLists == {[i \in 1..n |-> RootArg(i)] : n \in 1..MaxRoots}

\* The tree of a root in this environment, when it is there.
EnvTree(i) ==
    {DirEnt(RootComp(i), "ok"), DirEnt(RootComp(i) \o <<"a">>, "ok"),
     FileEnt(RootComp(i) \o <<"a", "f">>, 4, 41), LinkEnt(RootComp(i) \o <<"l">>, <<SEP, "x">>)}

UnderRoot(d, i) == {e \in d : Len(e.path) >= 2 /\ SubSeq(e.path, 1, 2) = RootComp(i)}

InitEnv ==
    /\ roots \in RootLists
    /\ \E there \in SUBSET (1..MaxRoots) : disk = UNION {EnvTree(i) : i \in there}
    /\ filesystem = {}
    /\ directory = {}
    /\ file = {}
    /\ pc = "idle"
    /\ run = [n |-> 0, skip_files |-> FALSE, fresh |-> TRUE, after |-> "none"]
    /\ last_id = 0
    /\ fsq = <<>>
    /\ parents = <<>>
    /\ directory_id = 0
    /\ wstack = <<>>
    /\ yielded = <<>>
    /\ called = NoCall
    /\ dq = <<>>
    /\ ingested = {}
    /\ err = ""
    /\ prev = NoSnapshot

\* main is run with another list of roots than the run before it.
MainStartOther ==
    /\ MainBegin
    /\ roots' \in RootLists \ {roots}
    /\ UNCHANGED disk

\* Between two runs the tree of a root appears: os.path.exists(fs.name) becomes true.
Mount ==
    /\ pc \in Ended \ {"idle"}
    /\ run.n < MaxRuns
    /\ \E i \in 1..MaxRoots :
          /\ UnderRoot(disk, i) = {}
          /\ disk' = disk \cup EnvTree(i)
    /\ UNCHANGED <<roots, filesystem, directory, file, pc, run, last_id, fsq, parents,
                   directory_id, wstack, yielded, called, dq, ingested, err, prev>>

\* Between two runs the tree of a root disappears: os.path.exists(fs.name) becomes false.
Unmount ==
    /\ pc \in Ended \ {"idle"}
    /\ run.n < MaxRuns
    /\ \E i \in 1..MaxRoots :
          /\ UnderRoot(disk, i) # {}
          /\ disk' = disk \ UnderRoot(disk, i)
    /\ UNCHANGED <<roots, filesystem, directory, file, pc, run, last_id, fsq, parents,
                   directory_id, wstack, yielded, called, dq, ingested, err, prev>>

\* Between the directory stage and its files() call a directory loses its read
\* permission: os.scandir on it raises OSError.
Chmod ==
    /\ pc = "ingest"
    /\ \E k \in 1..Len(dq) :
          LET e == Lookup(disk, fullpath(filesystem, directory, dq[k]))
          IN  /\ e.kind = "dir" /\ e.st = "ok"
              /\ disk' = (disk \ {e}) \cup {DirEnt(e.path, "openfail")}
    /\ UNCHANGED <<roots, filesystem, directory, file, pc, run, last_id, fsq, parents,
                   directory_id, wstack, yielded, called, dq, ingested, err, prev>>

NextEnv ==
    \/ Next
    \/ MainStartOther
    \/ Mount
    \/ Unmount
    \/ Chmod

SpecEnv == InitEnv /\ [][NextEnv]_vars

--------------------------------------------------------------------------
(* main beside a process that replaces directory entries during the walk.  *)

\* The names a concurrent process replaces, and what it links them to: the
\* root of the tree that is walked, or a path that does not exist.
Replaceable == {"a", "b"}

\* fs.name of the call of directories() that is running.
WalkedRoot == (CHOOSE f \in filesystem : f.id = called.fs).name

ReplaceTargets == {WalkedRoot, <<SEP, "x">>}

\* walk(), line 74, for the call at the head of the pending calls: the test
\* os.path.islink(new_path) is done and os.scandir(new_path), line 39, is not.
WalkIslinkTest ==
    /\ pc = "walk"
    /\ wstack # <<>>
    /\ Head(wstack).chk
    /\ wstack' = IF WalkRecurses(disk, Head(wstack).path)
                  THEN <<[Head(wstack) EXCEPT !.chk = FALSE]>> \o Tail(wstack)
                  ELSE Tail(wstack)
    /\ UNCHANGED <<disk, roots, filesystem, directory, file, pc, run, last_id, fsq, parents,
                   directory_id, yielded, called, dq, ingested, err, prev>>

\* Another process replaces a subdirectory by a symlink: the parent of the
\* subdirectory has been listed, the subdirectory has not (its call of walk,
\* lines 67-75, is pending). Once in the life of the disk.
Replace ==
    /\ pc = "walk"
    /\ \A e \in disk : e.kind = "link" => Last(e.path) \notin Replaceable
    /\ \E k \in 1..Len(wstack), tg \in ReplaceTargets :
          LET c == Components(wstack[k].path)
          IN  /\ c # Components(WalkedRoot)
              /\ LookupC(disk, c).kind = "dir"
              /\ disk' = {e \in disk : ~ (Len(e.path) >= Len(c) /\ SubSeq(e.path, 1, Len(c)) = c)}
                          \cup {LinkEnt(c, tg)}
    /\ UNCHANGED <<roots, filesystem, directory, file, pc, run, last_id, fsq, parents,
                   directory_id, wstack, yielded, called, dq, ingested, err, prev>>

NextRace ==
    \/ Next
    \/ WalkIslinkTest
    \/ Replace

SpecRace == Init /\ [][NextRace]_vars

--------------------------------------------------------------------------
(* main run from its first line to its last without interruption, as a     *)
(* function of the filesystem and the command line: the composition of the *)
(* steps above.                                                            *)

\* directories(), lines 99-108: the loop run to its end or to an exception.
RECURSIVE DirectoriesLoop(_, _, _)
DirectoriesLoop(d, fsid, st) ==
    IF st.err # "" \/ WalkNext(d, st.wstack).done THEN st
    ELSE DirectoriesLoop(d, fsid, DirectoriesBody(fsid, WalkNext(d, st.wstack), st))

\* directories(fs, id)
directories(d, fs, dirT, id) == DirectoriesLoop(d, fs.id, DirectoriesSeed(fs, dirT, id))

\* main, lines 87-102
RECURSIVE DirStage(_, _, _, _)
DirStage(d, fss, dirT, last) ==
    IF fss = <<>> THEN [err |-> "", directory |-> dirT]
    ELSE LET fs == Head(fss)
             b == DirStageBranch(DirectoriesOf(dirT, fs.id))
             r == directories(d, fs, dirT, StartId(last))
         IN  IF ~ path_exists(d, fs.name) THEN DirStage(d, Tail(fss), dirT, last)
             ELSE IF b = "scan"
             THEN (IF r.err # "" THEN [err |-> r.err, directory |-> r.directory]
                   ELSE DirStage(d, Tail(fss), r.directory, r.directory_id))
             ELSE IF b = "max" THEN DirStage(d, Tail(fss), dirT, MaxId(dirT))
             ELSE DirStage(d, Tail(fss), dirT, (CHOOSE q \in DirectoriesOf(dirT, fs.id) : TRUE).id)

\* main, lines 112-113: files(d) for each d of the query.
RECURSIVE FilesLoop(_, _, _, _, _)
FilesLoop(d, fsT, dirT, fileT, q) ==
    IF q = <<>> THEN [err |-> "", file |-> fileT]
    ELSE LET r == FilesRows(d, fsT, dirT, fileT, Head(q))
         IN  IF ~ r.ok THEN [err |-> "OSError", file |-> fileT]
             ELSE FilesLoop(d, fsT, dirT, fileT \cup r.rows, Tail(q))

\* main, lines 106-123
RECURSIVE FileStage(_, _, _, _, _)
FileStage(d, fss, fsT, dirT, fileT) ==
    IF fss = <<>> THEN [err |-> "", file |-> fileT]
    ELSE LET fs == Head(fss)
             r == FilesLoop(d, fsT, dirT, fileT,
                            IngestQuery(dirT, fs.id))
         IN  IF ~ path_exists(d, fs.name) THEN FileStage(d, Tail(fss), fsT, dirT, fileT)
             ELSE IF FileStageBranch(FilesOfFs(dirT, fileT, fs.id)) = "ingest"
             THEN (IF r.err # "" THEN r ELSE FileStage(d, Tail(fss), fsT, dirT, r.file))
             ELSE FileStage(d, Tail(fss), fsT, dirT, fileT)

\* main from an empty store, file scanning not skipped.
FullRun(d, rs) ==
    LET fsT == NewFileSystems(rs)
        ds == DirStage(d, SortById(fsT), {}, 0)
        fs == FileStage(d, SortById(fsT), fsT, ds.directory, {})
    IN  [err |-> IF ~ UniqueNameOk({}, fsT) THEN "IntegrityError"
                 ELSE IF ds.err # "" THEN ds.err ELSE fs.err,
         filesystem |-> fsT, directory |-> ds.directory, file |-> fs.file]

--------------------------------------------------------------------------
(* What the filesystem holds, read off the disk without the walker.        *)

ChildrenOf(d, c) == {e \in d : Len(e.path) = Len(c) + 1 /\ SubSeq(e.path, 1, Len(c)) = c}

NonDirCount(d, c) == Cardinality({e \in ChildrenOf(d, c) : e.kind # "dir"})

SubDirCount(d, c) == Cardinality({e \in ChildrenOf(d, c) : e.kind = "dir"})

Listable(d, c) ==
    /\ LookupC(d, c).kind = "dir"
    /\ LookupC(d, c).st \in {"ok", "nosearch"}
    /\ \A k \in 1..(Len(c) - 1) : LookupC(d, SubSeq(c, 1, k)).st # "nosearch"

\* The directories at or below the root rc that a listing reaches: every
\* directory on the way from rc down to them, themselves included, is listable.
Reached(d, rc) ==
    {e.path : e \in {x \in d : /\ x.kind = "dir"
                               /\ Len(x.path) >= Len(rc)
                               /\ SubSeq(x.path, 1, Len(rc)) = rc
                               /\ \A k \in Len(rc)..Len(x.path) : Listable(d, SubSeq(x.path, 1, k))}}

\* The directories a listing finds: the root and every directory entry of a reached directory.
Found(d, rc) ==
    (IF LookupC(d, rc).kind = "dir" THEN {rc} ELSE {})
    \cup {e.path : e \in {x \in d : x.kind = "dir" /\ Len(x.path) > Len(rc)
                                   /\ Front(x.path) \in Reached(d, rc)}}

RECURSIVE SumNonDir(_, _)
SumNonDir(d, S) ==
    IF S = {} THEN 0
    ELSE LET x == CHOOSE x \in S : TRUE IN NonDirCount(d, x) + SumNonDir(d, S \ {x})

RowPath(r) == Components(fullpath(filesystem, directory, r))

RowsOfCall == DirectoriesOf(directory, called.fs)

CallRoot == Components((CHOOSE f \in filesystem : f.id = called.fs).name)

\* directories() has just returned to main: the rows of fs are as it left them.
Returned == called.returned /\ pc = "dirs"

\* directories() is running or has just returned: parents is its mapping.
InCall == called.fs # 0 /\ pc \in {"walk", "dirs"}

--------------------------------------------------------------------------
(* The claims.                                                             *)

\* C1: a run of main that follows a complete full build, without overwrite
\* and over the unchanged tree, leaves the Directory rows and the File rows
\* as that build left them, in every state of the run and whatever way it ends.
C1_Idempotent ==
    run.after = "done" => directory = prev.directory /\ file = prev.file

\* C1 witness: the second run has ended after a first build that filled both tables.
C1_Witness ==
    /\ run.after = "done"
    /\ pc = "done"
    /\ Cardinality(directory) >= 3
    /\ Cardinality(file) >= 2

\* C2: in every state, whatever runs and interruptions led to it, no two
\* Directory rows of one filesystem resolve to the same path and no two File
\* rows have the same directory and name.
C2_NoDuplicates ==
    /\ \A r1, r2 \in directory :
          r1.filesystem_id = r2.filesystem_id /\ RowPath(r1) = RowPath(r2) => r1 = r2
    /\ \A f1, f2 \in file :
          f1.directory_id = f2.directory_id /\ f1.name = f2.name => f1 = f2

\* C2 witness: a run that follows an interrupted one has ended with both tables filled.
C2_Witness ==
    /\ run.after = "killed"
    /\ pc = "done"
    /\ ~ run.skip_files
    /\ Cardinality(directory) >= 3
    /\ Cardinality(file) >= 2

\* C3: when a run was interrupted and the next run, without overwrite and
\* with file scanning, ends normally, the catalog is the one a single
\* uninterrupted run from an empty store builds.
C3_ResumeCompletes ==
    (run.after = "killed" /\ pc = "done" /\ ~ run.skip_files)
        => /\ FullRun(disk, roots).err = ""
           /\ directory = FullRun(disk, roots).directory
           /\ file = FullRun(disk, roots).file

\* C4 as claimed: when directories() has returned, the Directory rows of fs
\* are as many as the triples the walker yielded.
C4_RowsEqualTriples ==
    Returned => Cardinality(RowsOfCall) = Len(yielded)

\* C4 amended: when directories() has returned, the Directory rows of fs are
\* as many as the triples the walker yielded plus the directories found whose
\* listing fails; they are the directories found, one row each.
C4_RowsEqualFound ==
    Returned =>
        /\ Cardinality(RowsOfCall)
              = Len(yielded) + Cardinality({r \in RowsOfCall : ~ Listable(disk, RowPath(r))})
        /\ {RowPath(r) : r \in RowsOfCall} = Found(disk, CallRoot)
        /\ Cardinality(RowsOfCall) = Cardinality(Found(disk, CallRoot))

\* C4 witness: directories() has returned, the walker yielded two triples or
\* more and a directory whose listing fails has a row.
C4_Witness ==
    /\ Returned
    /\ Len(yielded) >= 2
    /\ Cardinality(RowsOfCall) > Len(yielded)

\* C5: when a run from an empty store with file scanning ends normally, every
\* Directory has as many File rows as its nfiles, and the File rows are as
\* many as the non-directory entries of the directories the walker reaches.
C5_FileCounts ==
    (pc = "done" /\ run.fresh /\ ~ run.skip_files) =>
        /\ \A r \in directory : Cardinality({f \in file : f.directory_id = r.id}) = r.nfiles
        /\ Cardinality(file)
              = SumNonDir(disk, UNION {Reached(disk, Components(f.name)) : f \in filesystem})

\* C5 witness: such a run has ended with regular files and symlinks recorded.
C5_Witness ==
    /\ pc = "done"
    /\ run.fresh
    /\ ~ run.skip_files
    /\ Cardinality(file) >= 3
    /\ \E f \in file : f.link
    /\ \E f \in file : ~ f.link

\* C6 as claimed: when directories() has returned, every Directory row of fs
\* has nfiles equal to the number of non-directory entries in its directory.
C6_NfilesIsContent ==
    Returned => \A r \in RowsOfCall : r.nfiles = NonDirCount(disk, RowPath(r))

\* C6 amended: when directories() has returned, a row whose directory the
\* walker listed has nfiles equal to the number of non-directory entries in
\* it, whatever its subdirectories; a row whose directory could not be listed
\* has nfiles 0.
C6_NfilesIsListing ==
    Returned =>
        \A r \in RowsOfCall :
            r.nfiles = IF RowPath(r) \in Reached(disk, CallRoot)
                       THEN NonDirCount(disk, RowPath(r)) ELSE 0

\* C6 witness: a listed directory with two subdirectories and a file, and an
\* unlistable directory that holds a file.
C6_Witness ==
    /\ Returned
    /\ \E r \in RowsOfCall : SubDirCount(disk, RowPath(r)) = 2 /\ r.nfiles >= 1
    /\ \E r \in RowsOfCall : ~ Listable(disk, RowPath(r)) /\ NonDirCount(disk, RowPath(r)) > 0

\* C7: during and after directories(), every Directory row of fs has a
\* fullpath that is the key under which parents maps its id, the root row has
\* the FileSystem name, and the path names that directory on the disk.
C7_PathRoundTrip ==
    InCall =>
        \A r \in RowsOfCall :
            /\ fullpath(filesystem, directory, r) \in DOMAIN parents
            /\ parents[fullpath(filesystem, directory, r)] = r.id
            /\ \A p \in DOMAIN parents : parents[p] = r.id => p = fullpath(filesystem, directory, r)
            /\ r.name = "" => fullpath(filesystem, directory, r) = FileSystemOf(filesystem, r).name
            /\ Lookup(disk, fullpath(filesystem, directory, r)).kind = "dir"
            /\ r.name # "" => EntryName(Lookup(disk, fullpath(filesystem, directory, r))) = r.name

\* C7 witness: directories() has returned with a row two levels below the root.
C7_Witness ==
    /\ Returned
    /\ \E r \in RowsOfCall : r.name # "" /\ ParentRow(directory, r).name # ""

\* C8: in every state every File row with link true has size 0 and the raw
\* target of the symlink on the disk as destination, which is not empty; a
\* row with link false has the empty destination; link is true exactly for
\* the symlinks.
C8_SymlinkRows ==
    \A f \in file :
        LET dir == CHOOSE r \in directory : r.id = f.directory_id
            e == LookupC(disk, RowPath(dir) \o <<f.name>>)
        IN  /\ f.link <=> e.kind = "link"
            /\ f.link => f.size = 0 /\ f.destination # <<>> /\ f.destination = e.target
            /\ ~ f.link => f.destination = <<>> /\ f.size = e.size

\* C8 witness: a symlink whose target does not exist and a regular file of
\* positive size are both recorded.
C8_Witness ==
    /\ \E f \in file : f.link /\ Lookup(disk, f.destination).kind = "none"
    /\ \E f \in file : ~ f.link /\ f.size > 0

\* C9: the walker puts every symlink in the non-directory list of its triple
\* and in no directory list, no triple is for a path through a symlink, no
\* Directory row is for a symlink, and a symlink counts in nfiles.
C9_SymlinksAreFiles ==
    /\ \A k \in 1..(IF InCall THEN Len(yielded) ELSE 0) :
          /\ \A e \in ChildrenOf(disk, Components(yielded[k].top)) :
                e.kind = "link" =>
                    /\ \E j \in 1..Len(yielded[k].nondirs) : yielded[k].nondirs[j] = EntryName(e)
                    /\ ~ \E j \in 1..Len(yielded[k].dirs) : yielded[k].dirs[j] = EntryName(e)
          /\ \A n \in 1..Len(Components(yielded[k].top)) :
                LookupC(disk, SubSeq(Components(yielded[k].top), 1, n)).kind # "link"
    /\ \A r \in directory : LookupC(disk, RowPath(r)).kind # "link"
    /\ Returned =>
          \A r \in RowsOfCall :
              RowPath(r) \in Reached(disk, CallRoot) =>
                  r.nfiles >= Cardinality({e \in ChildrenOf(disk, RowPath(r)) : e.kind = "link"})

\* C9 witness: directories() has returned over a tree with a symlink to an
\* ancestor directory in a listed directory below the root.
C9_Witness ==
    /\ Returned
    /\ \E k \in 1..Len(yielded) :
          /\ Components(yielded[k].top) # CallRoot
          /\ \E e \in ChildrenOf(disk, Components(yielded[k].top)) :
                e.kind = "link" /\ LookupFollow(disk, e.target).kind = "dir"

\* C10: no exception leaves the walker; the triples are for directories the
\* listings reach, one each, and when directories() has returned every
\* reached directory has its triple.
C10_UnlistableSkipped ==
    /\ called.fs # 0 /\ ~ called.returned => pc = "walk"
    /\ InCall =>
          /\ \A k \in 1..Len(yielded) : Components(yielded[k].top) \in Reached(disk, CallRoot)
          /\ \A j, k \in 1..Len(yielded) : yielded[j].top = yielded[k].top => j = k
    /\ Returned =>
          {Components(yielded[k].top) : k \in 1..Len(yielded)} = Reached(disk, CallRoot)

\* C10 witness: directories() has returned over a tree where a directory
\* whose listing fails holds a listable subdirectory and has a listable sibling.
C10_Witness ==
    /\ Returned
    /\ Len(yielded) >= 2
    /\ \E r \in RowsOfCall :
          /\ ~ Listable(disk, RowPath(r))
          /\ \E e \in ChildrenOf(disk, RowPath(r)) : e.kind = "dir" /\ e.st = "ok"

\* C11: no run of main is ended by a listing failure: main never ends with
\* the OSError of a files() call whose directory cannot be listed.
C11_ListingFailureNotFatal ==
    ~ (/\ pc = "crashed"
       /\ err = "OSError"
       /\ dq # <<>>
       /\ ~ ScanDir(disk, fullpath(filesystem, directory, Head(dq))).ok)

\* The configured roots that are on the disk, in the order of the command line.
PresentRoots ==
    SelectSeq(roots, LAMBDA r : LookupC(disk, Components(Join2(r, Release))).kind # "none")

OnDisk(f) == LookupC(disk, Components(f.name)).kind # "none"

\* The Directory rows with the name of their filesystem in place of its id.
DirByName(fsT, dirT) == {[r EXCEPT !.filesystem_id = FileSystemOf(fsT, r).name] : r \in dirT}

\* C12: when a run from an empty store with file scanning has ended, a
\* filesystem whose root is not on the disk has no Directory row and no File
\* row, and the run ended as, and left the Directory and File rows of, a run
\* whose command line names only the roots that are on the disk.
C12_MissingRootSkipped ==
    (pc \in {"done", "crashed"} /\ run.fresh /\ ~ run.skip_files) =>
        LET F == FullRun(disk, PresentRoots)
        IN  /\ \A f \in filesystem :
                  ~ OnDisk(f) => /\ DirectoriesOf(directory, f.id) = {}
                                 /\ FilesOfFs(directory, file, f.id) = {}
            /\ err = F.err
            /\ DirByName(filesystem, directory) = DirByName(F.filesystem, F.directory)
            /\ file = F.file

\* C12 witness: such a run has ended; the first root is missing and the
\* second one has been scanned, directories and files.
C12_Witness ==
    /\ pc = "done" /\ run.fresh /\ ~ run.skip_files
    /\ \E f, g \in filesystem :
          /\ f.id < g.id
          /\ ~ OnDisk(f)
          /\ Cardinality(DirectoriesOf(directory, g.id)) >= 2
          /\ FilesOfFs(directory, file, g.id) # {}

\* C13: when a run of main has ended normally, every root of its command
\* line, joined with the release, is the name of exactly one FileSystem row.
C13_OneRowPerRoot ==
    pc = "done" =>
        \A i \in 1..Len(roots) :
            Cardinality({f \in filesystem : f.name = Join2(roots[i], Release)}) = 1

\* C14: when directories(fs, startId) has returned, the root row of fs has
\* the id startId, the ids of the rows of fs are startId .. startId+n with n
\* the number of the other rows, one row each, the value returned is
\* startId+n, and it is startId when the tree is only a root.
C14_ConsecutiveIds ==
    Returned =>
        LET n == Cardinality(RowsOfCall) - 1
        IN  /\ \A r \in RowsOfCall : r.name = "" <=> r.id = called.start
            /\ {r.id : r \in RowsOfCall} = called.start..(called.start + n)
            /\ \A r1, r2 \in RowsOfCall : r1.id = r2.id => r1 = r2
            /\ directory_id = called.start + n
            /\ last_id = directory_id
            /\ Found(disk, CallRoot) = {CallRoot} => directory_id = called.start

\* C14 witness: a call that did not start at 1 has returned after it created
\* a row beside the root row.
C14_Witness ==
    /\ Returned
    /\ called.start > 1
    /\ Cardinality(RowsOfCall) >= 2

\* main is about to call directories(Head(fsq), last_id + 1).
AboutToScan ==
    /\ pc = "dirs"
    /\ fsq # <<>>
    /\ OnDisk(Head(fsq))
    /\ DirectoriesOf(directory, Head(fsq).id) = {}

\* C15: whenever main is about to call directories(fs, startId), startId is
\* greater than every Directory id in the store, and no run ends with the
\* IntegrityError of an id that is already taken.
C15_StartIdIsNew ==
    /\ AboutToScan => \A r \in directory : r.id < last_id + 1
    /\ err # "IntegrityError"

\* C15 witness: main is about to scan a filesystem while the store holds
\* the Directory rows of another one.
C15_Witness ==
    /\ AboutToScan
    /\ Cardinality(directory) >= 2

\* C16: in every state of the store the Directory ids are 1 .. N, N the
\* number of Directory rows, and the rows of a filesystem that main scans
\* later have larger ids than the rows of one it scans earlier.
C16_DenseIds ==
    /\ {r.id : r \in directory} = 1..Cardinality(directory)
    /\ \A r1, r2 \in directory : r1.filesystem_id < r2.filesystem_id => r1.id < r2.id

\* C16 witness: a second run has started on a store that holds the Directory
\* rows of two filesystems.
C16_Witness ==
    /\ run.n >= 2
    /\ Cardinality({r.filesystem_id : r \in directory}) >= 2
    /\ Cardinality(directory) >= 4

\* The parent chain of r reaches a row with empty name in at most fuel
\* steps, every row on the way being the one row with its id and of the
\* filesystem of r.
RECURSIVE ReachesRoot(_, _)
ReachesRoot(r, fuel) ==
    IF r.name = "" THEN TRUE
    ELSE IF fuel = 0 THEN FALSE
    ELSE LET ps == {q \in directory : q.id = r.parent_id}
         IN  /\ Cardinality(ps) = 1
             /\ \A q \in ps : /\ q.filesystem_id = r.filesystem_id
                               /\ q.id # r.id
                               /\ ReachesRoot(q, fuel - 1)

\* C17: in every state of the store, each filesystem with a Directory row has
\* exactly one Directory with empty name, that row is its own parent, it is
\* the only row that is its own parent, and the parent chain of every other
\* row of the filesystem reaches it without leaving the filesystem.
C17_ParentTree ==
    \A fsid \in {r.filesystem_id : r \in directory} :
        LET rows == {r \in directory : r.filesystem_id = fsid}
        IN  /\ Cardinality({r \in rows : r.name = ""}) = 1
            /\ \A r \in rows : r.name = "" <=> r.parent_id = r.id
            /\ \A r \in rows : ReachesRoot(r, Cardinality(rows))

\* C17 witness: a Directory whose parent is not the root row is in the store.
C17_Witness ==
    \E r, q \in directory : r.name # "" /\ q.name # "" /\ r.parent_id = q.id /\ r # q

\* C18: a run with the skip-files flag never enters the file stage and never
\* calls files(); no step of it after the store is opened changes the File
\* table; and when it started on an empty store and ends normally its
\* Directory rows are those of the run without the flag.
C18_SkipFiles ==
    /\ [](run.skip_files => pc \notin {"files", "ingest"} /\ ingested = {})
    /\ [][(run.skip_files /\ pc \in InRun) => file' = file]_vars
    /\ []((pc = "done" /\ run.fresh /\ run.skip_files)
            => directory = FullRun(disk, roots).directory)

\* C18 witness: a run with the flag has ended on a store that held File rows
\* and Directory rows before it.
C18_Witness ==
    /\ pc = "done"
    /\ run.skip_files
    /\ run.n >= 2
    /\ file # {}
    /\ Cardinality(directory) >= 2

\* C19: no run of main is ended by the NoResultFound or the
\* MultipleResultsFound of a query for exactly one row.
C19_NoQueryErrorEscapes ==
    err \notin {"NoResultFound", "MultipleResultsFound"}

\* C20: when a run of main has ended normally, a filesystem whose root is on
\* the disk and that has exactly one Directory row has no subdirectory for
\* the walker to find: a lone root row that the run met was scanned again.
C20_PlaceholderRescanned ==
    pc = "done" =>
        \A f \in filesystem :
            (OnDisk(f) /\ Cardinality(DirectoriesOf(directory, f.id)) = 1)
                => Found(disk, Components(f.name)) = {Components(f.name)}

\* C21: in a run from an empty store with file scanning, whenever a
\* filesystem whose root is on the disk has a Directory row, files() has
\* been called on every Directory with nfiles > 0 of every filesystem before
\* it whose root is on the disk.
C21_RootByRoot ==
    (run.fresh /\ ~ run.skip_files /\ pc \in InRun) =>
        \A f, g \in filesystem :
            (f.id < g.id /\ OnDisk(f) /\ OnDisk(g) /\ DirectoriesOf(directory, g.id) # {})
                => \A r \in DirectoriesOf(directory, f.id) : r.nfiles > 0 => r.id \in ingested

\* The ids of the Directory rows of f that files() was called on in this run.
CalledOn(f) == {r.id : r \in DirectoriesOf(directory, f.id)} \cap ingested

\* The File rows of f that this run did not write.
FilesBefore(f) == {x \in FilesOfFs(directory, file, f.id) : x.directory_id \notin ingested}

\* C22: when the file stage of a run has ended, files() was called, for a
\* filesystem whose root is on the disk and that had no File row, on exactly
\* the Directory rows with nfiles > 0, and for any other filesystem on none;
\* every call is on a Directory with nfiles > 0 that was not called on before
\* in the run; an empty root has one Directory row with nfiles = 0, no File
\* row and no call.
C22_FileStageCalls ==
    /\ []((pc \in {"close", "done"} /\ ~ run.skip_files) =>
            \A f \in filesystem :
                /\ CalledOn(f) = IF OnDisk(f) /\ FilesBefore(f) = {}
                                 THEN {r.id : r \in {x \in DirectoriesOf(directory, f.id) : x.nfiles > 0}}
                                 ELSE {}
                /\ (run.fresh /\ Listable(disk, Components(f.name))
                      /\ ChildrenOf(disk, Components(f.name)) = {})
                     => /\ \E r \in directory : DirectoriesOf(directory, f.id) = {r} /\ r.nfiles = 0
                        /\ FilesOfFs(directory, file, f.id) = {}
                        /\ CalledOn(f) = {})
    /\ [][(pc = "ingest" /\ pc' = "ingest" /\ ingested' # ingested)
            => /\ Head(dq).nfiles > 0
               /\ Head(dq).id \notin ingested
               /\ ingested' = ingested \cup {Head(dq).id}]_vars

\* C22 witness: a file stage has ended after calls of files() on two
\* directories, with a directory with nfiles = 0 left alone.
C22_Witness ==
    /\ pc = "done" /\ ~ run.skip_files
    /\ Cardinality(ingested) >= 2
    /\ \E r \in directory : r.nfiles = 0 /\ r.id \notin ingested

\* C23 as claimed: no step changes a column of a Directory row that is in
\* the store.
C23_RowsImmutable ==
    [][\A r \in directory : \A r2 \in directory' : r2.id = r.id => r2 = r]_vars

\* C23 amended: a step changes a Directory row that is in the store only in
\* its nfiles, only from 0, only when directories() processes the triple of
\* the directory of that row, which it does once, and to the number of
\* non-directory entries of that triple.
C23_NfilesWrittenOnce ==
    [][\A r \in directory : \A r2 \in directory' :
          r2.id = r.id =>
              \/ r2 = r
              \/ /\ pc = "walk" /\ pc' = "walk"
                 /\ r2 = [r EXCEPT !.nfiles = r2.nfiles]
                 /\ r.nfiles = 0
                 /\ LET t == WalkNext(disk, wstack)
                    IN  /\ ~ t.done
                        /\ parents[t.top] = r.id
                        /\ r2.nfiles = Len(t.nondirs)
                        /\ \A k \in 1..Len(yielded) : yielded[k].top # t.top]_vars

\* C23 witness: a later run has ended on a store where a Directory that is
\* not a root has the nfiles that was written after the row was created.
C23_Witness ==
    /\ run.n >= 2
    /\ pc = "done"
    /\ \E r \in directory : r.name # "" /\ r.nfiles > 0

\* The File rows of the Directory r.
FilesOfDir(r) == {f \in file : f.directory_id = r.id}

\* C24: in every state of the store a Directory has none of its File rows or
\* all of them: one row for each non-directory entry of the directory.
C24_AllOrNothing ==
    \A r \in directory :
        \/ FilesOfDir(r) = {}
        \/ /\ {f.name : f \in FilesOfDir(r)}
                  = {EntryName(e) : e \in {x \in ChildrenOf(disk, RowPath(r)) : x.kind # "dir"}}
           /\ Cardinality(FilesOfDir(r)) = NonDirCount(disk, RowPath(r))

\* C24 witness: files() failed on a directory after another directory got
\* its two File rows; the directory it failed on has none.
C24_Witness ==
    /\ pc = "crashed" /\ err = "OSError"
    /\ dq # <<>>
    /\ FilesOfDir(Head(dq)) = {}
    /\ \E r \in directory : Cardinality(FilesOfDir(r)) >= 2

\* C25: whenever the walker is about to yield a triple to directories(), the
\* path of the triple is a key of parents and the store holds exactly one
\* Directory row with the id it maps to, a row of the filesystem of the
\* call; and no call of directories() ends with KeyError, NoResultFound or
\* MultipleResultsFound.
C25_TripleResolves ==
    /\ (pc = "walk" /\ ~ WalkNext(disk, wstack).done) =>
            LET t == WalkNext(disk, wstack)
            IN  /\ t.top \in DOMAIN parents
                /\ Cardinality({r \in directory : r.id = parents[t.top]}) = 1
                /\ \A r \in directory : r.id = parents[t.top] => r.filesystem_id = called.fs
    /\ ~ (/\ pc = "crashed"
           /\ called.fs # 0 /\ ~ called.returned
           /\ err \in {"KeyError", "NoResultFound", "MultipleResultsFound"})

\* C25 witness: the walker is about to yield its third triple or a later one.
C25_Witness ==
    /\ pc = "walk"
    /\ ~ WalkNext(disk, wstack).done
    /\ Len(yielded) >= 2

\* The directory entries of the disk.
DirsOnDisk == {e \in disk : e.kind = "dir"}

\* C26: during a call of directories() the walker has yielded no directory
\* twice and no more triples than the disk has directories, and a call that
\* is not killed returns.
C26_WalkTerminates ==
    /\ [](InCall =>
            /\ \A j, k \in 1..Len(yielded) :
                  Components(yielded[j].top) = Components(yielded[k].top) => j = k
            /\ Len(yielded) <= Cardinality(DirsOnDisk))
    /\ (pc = "walk") ~> (Returned \/ pc = "killed")

\* C26 witness: directories() has returned from a tree with a subdirectory
\* and a symlink to the root of the tree.
C26_Witness ==
    /\ Returned
    /\ Len(yielded) >= 2
    /\ \E e \in disk :
          /\ e.kind = "link"
          /\ Front(e.path) \in {Components(yielded[k].top) : k \in 1..Len(yielded)}
          /\ Components(e.target) = CallRoot

\* C27: beside a process that replaces a subdirectory by a symlink between the
\* listing of its parent and its own listing, no directory the walker has
\* yielded is that symlink: the walker does not descend into the target.
C27_NoDescentThroughSymlink ==
    InCall => \A k \in 1..Len(yielded) : ~ path_islink(disk, yielded[k].top)

\* The ids of the rows whose parent is the row q.
ChildIds(q) == {r.id : r \in {x \in directory : x.name # "" /\ x.parent_id = q.id}}

\* C28: in every state of the store, also one left by a kill between two
\* commits of directories(), every Directory row with a non-empty name has
\* exactly one parent row in the store, of the same filesystem and with a
\* strictly smaller id, and the ids of the children of one row are consecutive.
C28_ParentPresent ==
    /\ \A r \in directory : r.name # "" =>
          /\ Cardinality({q \in directory : q.id = r.parent_id}) = 1
          /\ \A q \in directory : q.id = r.parent_id =>
                /\ q.filesystem_id = r.filesystem_id
                /\ q.id < r.id
    /\ \A q \in directory :
          \A i, j \in ChildIds(q) : \A m \in i..j : m \in ChildIds(q)

\* C28 witness: the process was killed inside directories(), between two of
\* its commits: the store holds a row with two children, and one of them is
\* a listable directory with a subdirectory whose rows are not there yet.
C28_Witness ==
    /\ pc = "killed"
    /\ file = {}
    /\ \E q, r \in directory :
          /\ Cardinality(ChildIds(q)) >= 2
          /\ r.name # "" /\ r.parent_id = q.id
          /\ Listable(disk, RowPath(r))
          /\ SubDirCount(disk, RowPath(r)) > 0
          /\ ChildIds(r) = {}

====
